---------------------------- MODULE Spec2Model ----------------------------
(* A model of sarparse.py: the sar line tokenizers (parse_sar_cpu,        *)
(* parse_sar_ram, parse_sar_disk, parse_timelog) and the timestamp        *)
(* reconstruction functions (parse_sartime, make_timediff,                *)
(* get_sar_start_time, fixtime).                                          *)
(*                                                                        *)
(* Two specifications share the variables:                                *)
(*   Spec     a caller applies make_timediff, get_sar_start_time and      *)
(*            fixtime to one sample sequence;                             *)
(*   SpecTok  a caller applies one tokenizer to one file.                 *)
(*                                                                        *)
(* Text is modelled at the level the code inspects it.  A sar time of day *)
(* is a sequence of one-character strings, because parse_sartime splits   *)
(* it on ' ' and ':' and converts digit runs with int().  A file line is  *)
(* the sequence of its whitespace-separated words, because the tokenizers *)
(* only strip(), split(), test a prefix and test a substring.             *)
EXTENDS Integers, Sequences, FiniteSets, TLC

VARIABLES
    pc,                 \* which function of the module the caller runs next
    recs,               \* the record objects: recs[id] is the namedtuple id
    lists,              \* the list objects: lists[id] is a sequence of record ids
    sar_data,           \* id of the list passed as sar_data
    clock,              \* the wall-clock readings sar printed, one per sample
    timelog_timestamp,  \* the reference date-time passed to get_sar_start_time
    td,                 \* outcome of make_timediff(sar_data)
    st,                 \* outcome of get_sar_start_time(sar_data, timelog_timestamp)
    fx,                 \* the frame of fixtime: its arguments and locals
    kind,               \* which tokenizer is applied to the file
    file,               \* the lines of the file, in order
    device,             \* the device argument of parse_sar_disk
    n,                  \* the enumerate() index of the next line
    parsed,             \* the tokenizer's local accumulator
    outcome             \* what the tokenizer call produced

vars == <<pc, recs, lists, sar_data, clock, timelog_timestamp, td, st, fx,
          kind, file, device, n, parsed, outcome>>

tsVars  == <<pc, recs, lists, sar_data, clock, timelog_timestamp, td, st, fx>>
tokVars == <<kind, file, device, n, parsed, outcome>>

(* ------------------------------ bounds ------------------------------- *)

\* the longest sample sequence handed to the timestamp functions
MaxSamples == 3

\* the most lines a file has after its first three
MaxRows == 3

(* --------------------- datetime.datetime, timedelta ------------------- *)
(* The calendar arithmetic of the datetime objects the module builds     *)
(* (datetime.datetime(...), datetime.timedelta(0, secdiff), +=).          *)

Datetime(y, mo, d, h, mi, s) ==
    [year |-> y, month |-> mo, day |-> d, hour |-> h, minute |-> mi, second |-> s]

is_leap(y) == (y % 4 = 0) /\ ((y % 100 # 0) \/ (y % 400 = 0))

days_before_year(y) ==
    LET p == y - 1 IN p * 365 + (p \div 4) - (p \div 100) + (p \div 400)

days_in_month(y, m) ==
    IF m = 2 THEN (IF is_leap(y) THEN 29 ELSE 28)
    ELSE IF m \in {4, 6, 9, 11} THEN 30 ELSE 31

RECURSIVE days_before_month(_, _)
days_before_month(y, m) ==
    IF m = 1 THEN 0
    ELSE days_before_month(y, m - 1) + days_in_month(y, m - 1)

ymd2ord(y, m, d) == days_before_year(y) + days_before_month(y, m) + d

\* the year holding ordinal day o, by the 400/100/4/1-year cycles
ord2year(o) ==
    LET n0   == o - 1
        n400 == n0 \div 146097
        r400 == n0 % 146097
        n100 == r400 \div 36524
        r100 == r400 % 36524
        n4   == r100 \div 1461
        r4   == r100 % 1461
        n1   == r4 \div 365
        y    == n400 * 400 + 1 + n100 * 100 + n4 * 4 + n1
    IN  IF n1 = 4 \/ n100 = 4 THEN y - 1 ELSE y

ord2ymd(o) ==
    LET y   == ord2year(o)
        doy == o - days_before_year(y)
        m   == CHOOSE k \in 1..12 :
                   /\ days_before_month(y, k) < doy
                   /\ doy <= days_before_month(y, k) + days_in_month(y, k)
    IN  [year |-> y, month |-> m, day |-> doy - days_before_month(y, m)]

\* datetime.timedelta(0, seconds): normalised to days and 0 <= seconds < 86400
timedelta(days, seconds) ==
    [days |-> days + (seconds \div 86400), seconds |-> seconds % 86400]

\* datetime + timedelta
datetime_add(dt, delta) ==
    LET sod  == dt.hour * 3600 + dt.minute * 60 + dt.second + delta.seconds
        sum  == timedelta(ymd2ord(dt.year, dt.month, dt.day) + delta.days, sod)
        date == ord2ymd(sum.days)
    IN  Datetime(date.year, date.month, date.day,
                 sum.seconds \div 3600, (sum.seconds % 3600) \div 60,
                 sum.seconds % 60)

(* -------------------------- text of a sar time ------------------------ *)

Digit == <<"0", "1", "2", "3", "4", "5", "6", "7", "8", "9">>

\* what sar prints for one field of a time of day: two digits
TwoDigits(k) == <<Digit[(k \div 10) + 1], Digit[(k % 10) + 1]>>

\* the time field of a tokenized sample: line[0] + ' ' + line[1]
SarTimeText(c) ==
    TwoDigits(c.h) \o <<":">> \o TwoDigits(c.m) \o <<":">> \o TwoDigits(c.s)
        \o <<" ">> \o c.ampm

\* str.split(sep): the pieces of s between occurrences of the character sep
RECURSIVE split(_, _)
split(s, sep) ==
    IF \A k \in 1..Len(s) : s[k] # sep THEN <<s>>
    ELSE LET k == CHOOSE j \in 1..Len(s) :
                      s[j] = sep /\ \A q \in 1..(j - 1) : s[q] # sep
         IN  <<SubSeq(s, 1, k - 1)>> \o split(SubSeq(s, k + 1, Len(s)), sep)

DigitValue(ch) == (CHOOSE k \in 1..10 : Digit[k] = ch) - 1

\* int() of a run of decimal digits
RECURSIVE int(_)
int(s) ==
    IF Len(s) = 0 THEN 0
    ELSE int(SubSeq(s, 1, Len(s) - 1)) * 10 + DigitValue(s[Len(s)])

\* the three fields with minute and second exchanged
parse_sartime_swapped(t) ==
    LET hms == split(split(t, " ")[1], ":")
    IN  <<int(hms[1]), int(hms[3]), int(hms[2])>>

\* parse_sartime(t): <<hour, minute, second>>
parse_sartime(t) ==
    LET hms == split(split(t, " ")[1], ":")
    IN  <<int(hms[1]), int(hms[2]), int(hms[3])>>


(* ------------------------ values and records ------------------------- *)
(* The time field of a record holds a str until fixtime replaces it by a  *)
(* datetime; both are carried in one shape so that they can be compared.  *)

NoDatetime == Datetime(1, 1, 1, 0, 0, 0)

StrValue(chars) == [type |-> "str", chars |-> chars, dt |-> NoDatetime]

DatetimeValue(dt) == [type |-> "datetime", chars |-> <<>>, dt |-> dt]

\* typ = namedtuple('CPUUsage', 'time cpu puser pnice psystem piowait psteal pidle')
CPUUsage(time, cpu, puser, pnice, psystem, piowait, psteal, pidle) ==
    [time |-> time, cpu |-> cpu, puser |-> puser, pnice |-> pnice,
     psystem |-> psystem, piowait |-> piowait, psteal |-> psteal,
     pidle |-> pidle]

\* the fields of a namedtuple other than time
Payload(r) == <<r.cpu, r.puser, r.pnice, r.psystem, r.piowait, r.psteal, r.pidle>>

\* x._replace(time = t) with x the object id: a mutation of x in place
replace_in_place(store, id, t) ==
    [recs |-> [store EXCEPT ![id].time = t], ref |-> id]

\* x._replace(time = t) with x the object id: a new namedtuple is allocated,
\* equal to x in every field but time; x itself is untouched
replace(store, id, t) ==
    [recs |-> Append(store, [store[id] EXCEPT !.time = t]),
     ref  |-> Len(store) + 1]

\* the records a list object holds, in order
Records(id) == [k \in 1..Len(lists[id]) |-> recs[lists[id][k]]]

(* -------------------------- make_timediff ---------------------------- *)

Outcome(status, value) == [status |-> status, value |-> value]

\* the interval with the seconds added where they are subtracted
make_timediff_plus(data) ==
    IF Len(data) < 2 THEN Outcome("IndexError", 0)
    ELSE LET t1 == parse_sartime(data[1].time.chars)
             t2 == parse_sartime(data[2].time.chars)
         IN  IF t1[1] # t2[1] THEN Outcome("AssertionError", 0)
             ELSE Outcome("ok", (t2[2] - t1[2]) * 60 + t2[3] + t1[3])

\* the interval computed without the same-hour assertion
make_timediff_unchecked(data) ==
    IF Len(data) < 2 THEN Outcome("IndexError", 0)
    ELSE LET t1 == parse_sartime(data[1].time.chars)
             t2 == parse_sartime(data[2].time.chars)
         IN  Outcome("ok", (t2[2] - t1[2]) * 60 + t2[3] - t1[3])

\* make_timediff(sar_data): sar_data[0][0] and sar_data[1][0] are the time
\* fields of the first two records; indexing a shorter list raises IndexError
make_timediff(data) ==
    IF Len(data) < 2 THEN Outcome("IndexError", 0)
    ELSE LET t1 == parse_sartime(data[1].time.chars)
             t2 == parse_sartime(data[2].time.chars)
         IN  IF t1[1] # t2[1] THEN Outcome("AssertionError", 0)
             ELSE Outcome("ok", (t2[2] - t1[2]) * 60 + t2[3] - t1[3])

(* ------------------------ get_sar_start_time ------------------------- *)

\* the start built from the sample's own hour
get_sar_start_time_sample_hour(data, ts) ==
    IF Len(data) < 1 THEN Outcome("IndexError", NoDatetime)
    ELSE LET t == parse_sartime(data[1].time.chars)
         IN  Outcome("ok", Datetime(ts.year, ts.month, ts.day, t[1], t[2], t[3]))

\* get_sar_start_time(sar_data, timelog_timestamp)
get_sar_start_time(data, ts) ==
    IF Len(data) < 1 THEN Outcome("IndexError", NoDatetime)
    ELSE LET t == parse_sartime(data[1].time.chars)
         IN  Outcome("ok", Datetime(ts.year, ts.month, ts.day, ts.hour, t[2], t[3]))

(* ----------------------------- fixtime ------------------------------- *)

\* the loop's clock left where it is
advance_stale(currentime, delta) == currentime

\* currentime += delta
advance(currentime, delta) == datetime_add(currentime, delta)

IdleFrame ==
    [status |-> "idle", composed |-> FALSE, start |-> NoDatetime, secdiff |-> 0,
     delta |-> timedelta(0, 0), currentime |-> NoDatetime, sar_data2 |-> 0,
     i |-> 0]

(* ------------------------- inputs of the calls ------------------------ *)

Reading(h, m, s, ampm) == [h |-> h, m |-> m, s |-> s, ampm |-> ampm]

\* wall-clock readings a sar report may carry in its first column
ClockChoices ==
    { Reading(9, 59, 55, <<"P", "M">>),
      Reading(10, 0, 5, <<"P", "M">>),
      Reading(9, 40, 3, <<"A", "M">>),
      Reading(9, 40, 13, <<"P", "M">>) }

\* reference timestamps: the last hour of a year, and a leap day
RefChoices ==
    { Datetime(2013, 12, 31, 23, 15, 7),
      Datetime(2012, 2, 29, 9, 0, 0) }

\* start times a caller passes to fixtime directly
StartChoices ==
    { Datetime(2013, 12, 31, 23, 59, 55),
      Datetime(2012, 2, 28, 23, 59, 50) }

\* intervals a caller passes to fixtime directly
SecdiffChoices == {-10, 0, 10, 90000}

SeqsUpTo(S, len) == UNION {[1..k -> S] : k \in 0..len}

\* the tokenized sample of reading c, the k-th row of the report
Sample(c, k) ==
    CPUUsage(StrValue(SarTimeText(c)), "all", k, 0, 2, 0, 0, 97 - k)

IdleOutcome == [status |-> "idle", value |-> <<>>, error |-> "none"]

TokIdle ==
    /\ kind = "none"
    /\ file = <<>>
    /\ device = "none"
    /\ n = 0
    /\ parsed = <<>>
    /\ outcome = IdleOutcome

Init ==
    /\ clock \in SeqsUpTo(ClockChoices, MaxSamples)
    /\ recs = [k \in 1..Len(clock) |-> Sample(clock[k], k)]
    /\ lists = << [k \in 1..Len(clock) |-> k] >>
    /\ sar_data = 1
    /\ timelog_timestamp \in RefChoices
    /\ td = Outcome("uncalled", 0)
    /\ st = Outcome("uncalled", NoDatetime)
    /\ fx = IdleFrame
    /\ pc = "make_timediff"
    /\ TokIdle

(* ------------------------------ actions ------------------------------- *)

\* the caller evaluates make_timediff(sar_data)
MakeTimediff ==
    /\ pc = "make_timediff"
    /\ td' = make_timediff(Records(sar_data))
    /\ pc' = "get_sar_start_time"
    /\ UNCHANGED <<recs, lists, sar_data, clock, timelog_timestamp, st, fx>>
    /\ UNCHANGED tokVars

\* the caller evaluates get_sar_start_time(sar_data, timelog_timestamp)
GetSarStartTime ==
    /\ pc = "get_sar_start_time"
    /\ st' = get_sar_start_time(Records(sar_data), timelog_timestamp)
    /\ pc' = "fixtime"
    /\ UNCHANGED <<recs, lists, sar_data, clock, timelog_timestamp, td, fx>>
    /\ UNCHANGED tokVars

\* entry of fixtime(sar_data, start, secdiff): delta, currentime and the new
\* empty list sar_data2
Enter(start, secdiff, composed) ==
    /\ lists' = Append(lists, <<>>)
    /\ fx' = [status |-> "running", composed |-> composed, start |-> start,
              secdiff |-> secdiff, delta |-> timedelta(0, secdiff),
              currentime |-> start, sar_data2 |-> Len(lists) + 1, i |-> 0]
    /\ pc' = "fixtime_loop"
    /\ UNCHANGED <<recs, sar_data, clock, timelog_timestamp, td, st>>
    /\ UNCHANGED tokVars

\* the caller passes a start and an interval of its own
FixtimeCall ==
    /\ pc = "fixtime"
    /\ \E start \in StartChoices, secdiff \in SecdiffChoices :
           Enter(start, secdiff, FALSE)

\* the caller passes what the resolver and the estimator returned
FixtimeCompose ==
    /\ pc = "fixtime"
    /\ td.status = "ok"
    /\ st.status = "ok"
    /\ Enter(st.value, td.value, TRUE)

\* one iteration of 'for x in sar_data'
FixtimeStep ==
    /\ pc = "fixtime_loop"
    /\ fx.i < Len(lists[sar_data])
    /\ LET x == lists[sar_data][fx.i + 1]
           r == replace(recs, x, DatetimeValue(fx.currentime))
       IN  /\ recs' = r.recs
           /\ lists' = [lists EXCEPT ![fx.sar_data2] = Append(@, r.ref)]
           /\ fx' = [fx EXCEPT !.currentime = advance(fx.currentime, fx.delta),
                               !.i = fx.i + 1]
    /\ UNCHANGED <<pc, sar_data, clock, timelog_timestamp, td, st>>
    /\ UNCHANGED tokVars

\* 'return sar_data2'
FixtimeReturn ==
    /\ pc = "fixtime_loop"
    /\ fx.i >= Len(lists[sar_data])
    /\ fx' = [fx EXCEPT !.status = "returned"]
    /\ pc' = "done"
    /\ UNCHANGED <<recs, lists, sar_data, clock, timelog_timestamp, td, st>>
    /\ UNCHANGED tokVars

Next ==
    \/ MakeTimediff
    \/ GetSarStartTime
    \/ FixtimeCall
    \/ FixtimeCompose
    \/ FixtimeStep
    \/ FixtimeReturn

Spec == Init /\ [][Next]_vars

(* ------------------- properties of the timestamp functions ------------ *)

\* the list fixtime builds, as records
Out == Records(fx.sar_data2)

\* whether d names a day of the calendar and a second of that day
ValidDatetime(d) ==
    /\ d.month \in 1..12
    /\ d.day \in 1..days_in_month(d.year, d.month)
    /\ d.hour \in 0..23 /\ d.minute \in 0..59 /\ d.second \in 0..59

\* seconds from 2012-01-01 00:00:00 to d
SecondsSince2012(d) ==
    (ymd2ord(d.year, d.month, d.day) - ymd2ord(2012, 1, 1)) * 86400
        + d.hour * 3600 + d.minute * 60 + d.second

\* C1: fixtime returns a sequence of the same length and order as its input,
\* whose entry i (0-based) carries the time start + i * secdiff seconds; entry 0
\* carries start and an empty input gives an empty output.
C1_FixtimeTimes ==
    fx.status # "idle" =>
        /\ \A k \in 1..Len(Out) :
               /\ Out[k].time.type = "datetime"
               /\ ValidDatetime(Out[k].time.dt)
               /\ SecondsSince2012(Out[k].time.dt)
                      = SecondsSince2012(fx.start) + (k - 1) * fx.secdiff
               /\ Out[k].puser = k
        /\ Len(Out) = fx.i
        /\ fx.status = "returned" => Len(Out) = Len(clock)

\* C1's case: three samples rewritten ten seconds apart across the end of 2013
C1_Witness ==
    /\ fx.status = "returned"
    /\ Len(Out) = 3
    /\ fx.secdiff = 10
    /\ Out[1].time.dt = Datetime(2013, 12, 31, 23, 59, 55)
    /\ Out[3].time.dt = Datetime(2014, 1, 1, 0, 0, 15)

\* make_timediff has been evaluated
TimediffCalled == pc # "make_timediff"

\* get_sar_start_time has been evaluated
StartCalled == pc \notin {"make_timediff", "get_sar_start_time"}

\* C2: with at least two samples whose first two hour fields are equal,
\* make_timediff returns (min2 - min1) * 60 + (sec2 - sec1) of entries 0 and 1,
\* whatever the later entries and the AM/PM markers are.
C2_TimediffValue ==
    (TimediffCalled /\ Len(clock) >= 2 /\ clock[1].h = clock[2].h) =>
        /\ td.status = "ok"
        /\ td.value = (clock[2].m - clock[1].m) * 60 + (clock[2].s - clock[1].s)

\* C2's case: 09:40:03 AM then 09:40:13 PM then a third sample
C2_Witness ==
    /\ TimediffCalled
    /\ Len(clock) = 3
    /\ clock[1].h = clock[2].h
    /\ clock[1].ampm # clock[2].ampm
    /\ clock[3].h # clock[1].h
    /\ td.status = "ok"
    /\ td.value = 10

\* C3: when the hour fields of the first two samples differ, make_timediff
\* fails its assertion and returns no interval; it returns a value only for
\* a pair with equal hour fields.
C3_HourBoundary ==
    TimediffCalled =>
        /\ (Len(clock) >= 2 /\ clock[1].h # clock[2].h)
               => td.status = "AssertionError"
        /\ td.status = "ok" => (Len(clock) >= 2 /\ clock[1].h = clock[2].h)

\* C3's case: 09:59:55 followed by 10:00:05
C3_Witness ==
    /\ TimediffCalled
    /\ Len(clock) >= 2
    /\ clock[1] = Reading(9, 59, 55, <<"P", "M">>)
    /\ clock[2] = Reading(10, 0, 5, <<"P", "M">>)
    /\ td.status = "AssertionError"

\* C4: for a non-empty sequence get_sar_start_time returns the reference's
\* year, month, day and hour with the first sample's minute and second; the
\* sample's hour, its AM/PM marker and the later samples play no part, and a
\* sample hour unlike the reference's raises nothing.
C4_StartTime ==
    (StartCalled /\ Len(clock) >= 1) =>
        /\ st.status = "ok"
        /\ st.value = Datetime(timelog_timestamp.year, timelog_timestamp.month,
                               timelog_timestamp.day, timelog_timestamp.hour,
                               clock[1].m, clock[1].s)

\* C4's case: a 09:xx sample resolved against a 23:xx reference
C4_Witness ==
    /\ StartCalled
    /\ Len(clock) >= 2
    /\ clock[1].h = 9
    /\ timelog_timestamp.hour = 23
    /\ st.status = "ok"
    /\ st.value.hour = 23

\* C9: fixtime leaves its input as it was (same list, every record with its
\* original fields and time-of-day string); output record i equals input
\* record i in every field but time, and the output list and its records
\* are objects other than the input's.
C9_InputUntouched ==
    /\ lists[sar_data] = [k \in 1..Len(clock) |-> k]
    /\ \A k \in 1..Len(clock) : recs[k] = Sample(clock[k], k)
    /\ fx.status # "idle" =>
           /\ fx.sar_data2 # sar_data
           /\ \A k \in 1..Len(Out) :
                  /\ \A j \in 1..Len(lists[sar_data]) :
                         lists[fx.sar_data2][k] # lists[sar_data][j]
                  /\ Payload(Out[k]) = Payload(recs[lists[sar_data][k]])

\* C9's case: fixtime has returned the rewrite of at least two samples
C9_Witness ==
    /\ fx.status = "returned"
    /\ Len(clock) >= 2
    /\ Len(Out) = Len(clock)
    /\ Out[2].time.type = "datetime"
    /\ recs[lists[sar_data][2]].time.type = "str"

\* entries 0 and 1 in chronological order within their hour
Chronological == clock[1].m * 60 + clock[1].s <= clock[2].m * 60 + clock[2].s

\* C10: fixtime applied to the resolver's start and the estimator's interval,
\* for at least two samples whose first two share an hour and are in
\* chronological order, gives entry 0 the first sample's minute and second and
\* entry 1 the second sample's, both with the reference's year, month, day
\* and hour.
C10_Composition ==
    (fx.status = "returned" /\ fx.composed /\ Len(clock) >= 2 /\ Chronological) =>
        /\ Out[1].time.dt = Datetime(timelog_timestamp.year, timelog_timestamp.month,
                                     timelog_timestamp.day, timelog_timestamp.hour,
                                     clock[1].m, clock[1].s)
        /\ Out[2].time.dt = Datetime(timelog_timestamp.year, timelog_timestamp.month,
                                     timelog_timestamp.day, timelog_timestamp.hour,
                                     clock[2].m, clock[2].s)

\* C10's case: 09:40:13 then 09:59:55 composed against the 23:15:07 reference
C10_Witness ==
    /\ fx.status = "returned"
    /\ fx.composed
    /\ Len(clock) >= 2
    /\ clock[1] = Reading(9, 40, 13, <<"P", "M">>)
    /\ clock[2] = Reading(9, 59, 55, <<"P", "M">>)
    /\ Out[2].time.dt = Datetime(2013, 12, 31, 23, 59, 55)

(* ============================ tokenizers ============================== *)
(* A line is the sequence of its whitespace-separated words, with no      *)
(* leading white space: a blank or whitespace-only line is <<>>, the line *)
(* starts with 'Average' when its first word does, and a marker such as   *)
(* '%user' is in the line when it is one of its words.                    *)

\* header lines skipped by index: 'if n < 3'
HeaderLines == 3

\* 'assert len(line) == 9' of parse_sar_cpu
CpuFields == 9

\* 'assert len(line) >= 11' of parse_sar_ram, and the end of line[2:11]
RamFields == 11

\* 'assert len(line) == 11' of parse_sar_disk
DiskFields == 11

\* the words float() accepts, with their values
FloatWords ==
    {"0.0", "1.0", "2.0", "3.0", "4.0", "5.0", "6.0", "7.0", "8.0", "9.0",
     "10.0", "93.0", "95.0", "97.0"}

float(w) ==
    CASE w = "0.0" -> 0 [] w = "1.0" -> 1 [] w = "2.0" -> 2 [] w = "3.0" -> 3
      [] w = "4.0" -> 4 [] w = "5.0" -> 5 [] w = "6.0" -> 6 [] w = "7.0" -> 7
      [] w = "8.0" -> 8 [] w = "9.0" -> 9 [] w = "10.0" -> 10
      [] w = "93.0" -> 93 [] w = "95.0" -> 95 [] w = "97.0" -> 97

\* whether float(x) succeeds for every x of words
AllFloat(words) == \A k \in 1..Len(words) : words[k] \in FloatWords

Floats(words) == [k \in 1..Len(words) |-> float(words[k])]

\* not line.strip()
IsBlank(line) == Len(line) = 0

\* line.startswith('Average')
StartsWithAverage(line) == Len(line) > 0 /\ line[1] \in {"Average", "Average:"}

\* marker in line
Contains(line, marker) == \E k \in 1..Len(line) : line[k] = marker

\* line[0] + ' ' + line[1]
TimeOfDay(line) == <<line[1], " ", line[2]>>

\* what the body of a tokenizer's loop does with one line
Skip == [act |-> "skip", rec |-> <<>>, error |-> "none"]

Keep(rec) == [act |-> "append", rec |-> rec, error |-> "none"]

Raise(error) == [act |-> "raise", rec |-> <<>>, error |-> error]

\* typ = namedtuple('CPUUsage', ...) applied to line2
CpuRecord(line) ==
    LET f == Floats(SubSeq(line, 4, Len(line)))
    IN  CPUUsage(TimeOfDay(line), line[3], f[1], f[2], f[3], f[4], f[5], f[6])

\* the loop body of parse_sar_cpu without the 'Average' test
cpu_line_no_footer(k, line) ==
    IF IsBlank(line) THEN Skip
    ELSE IF k < HeaderLines THEN Skip
    ELSE IF Contains(line, "%user") THEN Skip
    ELSE IF Len(line) # CpuFields THEN Raise("AssertionError")
    ELSE IF ~AllFloat(SubSeq(line, 4, Len(line))) THEN Raise("ValueError")
    ELSE Keep(CpuRecord(line))

\* the loop body of parse_sar_cpu with a row of the wrong width passed over
cpu_line_lenient(k, line) ==
    IF IsBlank(line) THEN Skip
    ELSE IF k < HeaderLines THEN Skip
    ELSE IF StartsWithAverage(line) THEN Skip
    ELSE IF Contains(line, "%user") THEN Skip
    ELSE IF Len(line) # CpuFields THEN Skip
    ELSE IF ~AllFloat(SubSeq(line, 4, Len(line))) THEN Raise("ValueError")
    ELSE Keep(CpuRecord(line))

\* the loop body of parse_sar_cpu for the line of index k
cpu_line(k, line) ==
    IF IsBlank(line) THEN Skip
    ELSE IF k < HeaderLines THEN Skip
    ELSE IF StartsWithAverage(line) THEN Skip
    ELSE IF Contains(line, "%user") THEN Skip
    ELSE IF Len(line) # CpuFields THEN Raise("AssertionError")
    ELSE IF ~AllFloat(SubSeq(line, 4, Len(line))) THEN Raise("ValueError")
    ELSE Keep(CpuRecord(line))

\* typ = namedtuple('MemoryUsage', ...) applied to the time and nine numbers
MemoryUsage(time, f) ==
    [time |-> time, kbmemfree |-> f[1], kbmemused |-> f[2], pmemused |-> f[3],
     kbbuffers |-> f[4], kbcached |-> f[5], kbcommit |-> f[6], pcommit |-> f[7],
     kbactive |-> f[8], kbinact |-> f[9]]

\* the loop body of parse_sar_ram with the numbers taken from line[3:12]
ram_line_from_3(k, line) ==
    IF IsBlank(line) THEN Skip
    ELSE IF k < HeaderLines THEN Skip
    ELSE IF StartsWithAverage(line) THEN Skip
    ELSE IF Contains(line, "kbmemfree") THEN Skip
    ELSE IF Len(line) < RamFields THEN Raise("AssertionError")
    ELSE IF Len(line) < RamFields + 1 THEN Raise("TypeError")
    ELSE IF ~AllFloat(SubSeq(line, 4, RamFields + 1)) THEN Raise("ValueError")
    ELSE Keep(MemoryUsage(TimeOfDay(line), Floats(SubSeq(line, 4, RamFields + 1))))

\* the loop body of parse_sar_ram for the line of index k; line[2:11] is the
\* words of 0-based index 2 to 10
ram_line(k, line) ==
    IF IsBlank(line) THEN Skip
    ELSE IF k < HeaderLines THEN Skip
    ELSE IF StartsWithAverage(line) THEN Skip
    ELSE IF Contains(line, "kbmemfree") THEN Skip
    ELSE IF Len(line) < RamFields THEN Raise("AssertionError")
    ELSE IF ~AllFloat(SubSeq(line, 3, RamFields)) THEN Raise("ValueError")
    ELSE Keep(MemoryUsage(TimeOfDay(line), Floats(SubSeq(line, 3, RamFields))))

\* typ = namedtuple('DeviceStats', ...) applied to line2
DeviceStats(line) ==
    LET f == Floats(SubSeq(line, 4, Len(line)))
    IN  [time |-> TimeOfDay(line), dev |-> line[3], tps |-> f[1], reads |-> f[2],
         writes |-> f[3], avgrqsz |-> f[4], avgqusz |-> f[5], await |-> f[6],
         svctm |-> f[7], putil |-> f[8]]

\* the loop body of parse_sar_disk without the device test
disk_line_any_device(k, line, dev) ==
    IF k < HeaderLines THEN Skip
    ELSE IF StartsWithAverage(line) THEN Skip
    ELSE IF IsBlank(line) THEN Skip
    ELSE IF Len(line) < 3 THEN Raise("IndexError")
    ELSE IF Len(line) # DiskFields THEN Raise("AssertionError")
    ELSE IF ~AllFloat(SubSeq(line, 4, Len(line))) THEN Raise("ValueError")
    ELSE Keep(DeviceStats(line))

\* the loop body of parse_sar_disk for the line of index k; line[2] of a line
\* of fewer than three words raises IndexError
disk_line(k, line, dev) ==
    IF k < HeaderLines THEN Skip
    ELSE IF StartsWithAverage(line) THEN Skip
    ELSE IF IsBlank(line) THEN Skip
    ELSE IF Len(line) < 3 THEN Raise("IndexError")
    ELSE IF line[3] # dev THEN Skip
    ELSE IF Len(line) # DiskFields THEN Raise("AssertionError")
    ELSE IF ~AllFloat(SubSeq(line, 4, Len(line))) THEN Raise("ValueError")
    ELSE Keep(DeviceStats(line))

\* the date-time texts strptime('%a %b %d %H:%M:%S %Z %Y') accepts
StampA == <<"Mon", "Jan", "02", "15:04:05", "UTC", "2024">>

StampB == <<"Mon", "Jan", "02", "15:09:30", "UTC", "2024">>

MatchesFormat(words) == words \in {StampA, StampB}

strptime(words) ==
    IF words = StampA THEN Datetime(2024, 1, 2, 15, 4, 5)
    ELSE Datetime(2024, 1, 2, 15, 9, 30)

\* typ = namedtuple('TimelogEntry', 'script stage timestamp')
TimelogEntry(script, stage, timestamp) ==
    [script |-> script, stage |-> stage, timestamp |-> timestamp]

\* the loop body of parse_timelog: line.strip().split(' ', 2) unpacked into
\* three names, then strptime of the third
timelog_line(line) ==
    IF Len(line) < 3 THEN Raise("ValueError")
    ELSE IF ~MatchesFormat(SubSeq(line, 3, Len(line))) THEN Raise("ValueError")
    ELSE Keep(TimelogEntry(line[1], line[2], strptime(SubSeq(line, 3, Len(line)))))

\* the loop body of the tokenizer knd
line_step(knd, k, line, dev) ==
    IF knd = "cpu" THEN cpu_line(k, line)
    ELSE IF knd = "ram" THEN ram_line(k, line)
    ELSE IF knd = "disk" THEN disk_line(k, line, dev)
    ELSE timelog_line(line)

(* --------------------------- lines of files --------------------------- *)

Blank == <<>>

Banner == <<"Linux", "3.2.0", "(host)", "01/02/2013", "_x86_64_">>

CpuHeader ==
    <<"09:40:03", "PM", "CPU", "%user", "%nice", "%system", "%iowait", "%steal",
      "%idle">>

CpuRowA == <<"09:40:03", "PM", "all", "1.0", "0.0", "2.0", "0.0", "0.0", "97.0">>

CpuRowB == <<"09:40:13", "PM", "all", "3.0", "0.0", "4.0", "0.0", "0.0", "93.0">>

CpuShort == <<"09:40:23", "PM", "all", "3.0", "0.0", "4.0", "0.0", "0.0">>

CpuAverage == <<"Average:", "all", "2.0", "0.0", "3.0", "0.0", "0.0", "95.0">>

RamHeader ==
    <<"09:40:03", "PM", "kbmemfree", "kbmemused", "%memused", "kbbuffers",
      "kbcached", "kbcommit", "%commit", "kbactive", "kbinact", "kbdirty">>

\* eleven words: no kbdirty column
RamRow11 ==
    <<"09:40:03", "PM", "1.0", "2.0", "3.0", "4.0", "5.0", "6.0", "7.0", "8.0",
      "9.0">>

\* twelve words: the kbdirty column is the last
RamRow12 ==
    <<"09:40:13", "PM", "1.0", "2.0", "3.0", "4.0", "5.0", "6.0", "7.0", "8.0",
      "9.0", "10.0">>

RamShort ==
    <<"09:40:23", "PM", "1.0", "2.0", "3.0", "4.0", "5.0", "6.0", "7.0", "8.0">>

RamAverage ==
    <<"Average:", "1.0", "2.0", "3.0", "4.0", "5.0", "6.0", "7.0", "8.0", "9.0",
      "10.0">>

DiskHeader ==
    <<"06:21:38", "PM", "DEV", "tps", "rd_sec/s", "wr_sec/s", "avgrq-sz",
      "avgqu-sz", "await", "svctm", "%util">>

DiskRow(time, dev) ==
    <<time, "PM", dev, "1.0", "2.0", "3.0", "4.0", "5.0", "6.0", "7.0", "8.0">>

DiskShort(dev) ==
    <<"06:21:58", "PM", dev, "1.0", "2.0", "3.0", "4.0", "5.0", "6.0", "7.0">>

DiskTwoWords == <<"06:21:58", "PM">>

DiskAverage ==
    <<"Average:", "sda", "1.0", "2.0", "3.0", "4.0", "5.0", "6.0", "7.0", "8.0">>

TimelogA == <<"build", "compile">> \o StampA

TimelogB == <<"build", "link">> \o StampB

TimelogAverage == <<"Average:", "all", "2.0">>

\* the first three lines of a report
HeadChoices(knd) ==
    CASE knd = "cpu"  -> { <<Banner, Blank, CpuHeader>>, <<CpuShort, CpuRowA, CpuAverage>> }
      [] knd = "ram"  -> { <<Banner, Blank, RamHeader>>, <<RamShort, RamRow11, RamAverage>> }
      [] knd = "disk" -> { <<Banner, Blank, DiskHeader>>,
                           <<DiskTwoWords, DiskRow("06:21:38", "sda"), DiskShort("sda")>> }
      [] knd = "timelog" -> { <<>> }

\* the lines that may follow
BodyChoices(knd) ==
    CASE knd = "cpu"  -> {CpuRowA, CpuRowB, CpuShort, CpuAverage, CpuHeader, Blank}
      [] knd = "ram"  -> {RamRow11, RamRow12, RamShort, RamAverage, RamHeader, Blank}
      [] knd = "disk" -> {DiskRow("06:21:38", "sda"), DiskRow("06:21:48", "sda"),
                          DiskRow("06:21:38", "sdb"), DiskShort("sda"),
                          DiskShort("sdb"), DiskTwoWords, DiskAverage, DiskHeader,
                          Blank}
      [] knd = "timelog" -> {TimelogA, TimelogB, TimelogAverage, Blank}

\* the device argument; only parse_sar_disk takes one
DeviceChoices(knd) == IF knd = "disk" THEN {"sda", "DEV"} ELSE {"none"}

Kinds == {"cpu", "ram", "disk", "timelog"}

TsIdle ==
    /\ pc = "tokenizer"
    /\ recs = <<>>
    /\ lists = << <<>> >>
    /\ sar_data = 1
    /\ clock = <<>>
    /\ timelog_timestamp = NoDatetime
    /\ td = Outcome("uncalled", 0)
    /\ st = Outcome("uncalled", NoDatetime)
    /\ fx = IdleFrame

InitTok ==
    /\ kind \in Kinds
    /\ \E head \in HeadChoices(kind), body \in SeqsUpTo(BodyChoices(kind), MaxRows) :
           file = head \o body
    /\ device \in DeviceChoices(kind)
    /\ n = 0
    /\ parsed = <<>>
    /\ outcome = [status |-> "running", value |-> <<>>, error |-> "none"]
    /\ TsIdle

\* one iteration of the tokenizer's loop over the lines: the line is passed
\* over, a record is appended, or the exception leaves the call
Iterate(step) ==
    /\ outcome.status = "running"
    /\ n < Len(file)
    /\ IF step.act = "raise"
       THEN /\ outcome' = [status |-> "raised", value |-> <<>>, error |-> step.error]
            /\ parsed' = <<>>
            /\ n' = n
       ELSE /\ parsed' = IF step.act = "append" THEN Append(parsed, step.rec) ELSE parsed
            /\ n' = n + 1
            /\ UNCHANGED outcome
    /\ UNCHANGED <<kind, file, device>>
    /\ UNCHANGED tsVars

ParseSarCpuLine == kind = "cpu" /\ Iterate(cpu_line(n, file[n + 1]))

ParseSarRamLine == kind = "ram" /\ Iterate(ram_line(n, file[n + 1]))

ParseSarDiskLine == kind = "disk" /\ Iterate(disk_line(n, file[n + 1], device))

ParseTimelogLine == kind = "timelog" /\ Iterate(timelog_line(file[n + 1]))

\* 'return parsed' ('return d, parsed' with d = {} in parse_timelog)
ParseReturn ==
    /\ outcome.status = "running"
    /\ n >= Len(file)
    /\ outcome' = [status |-> "returned", value |-> parsed, error |-> "none"]
    /\ UNCHANGED <<kind, file, device, n, parsed>>
    /\ UNCHANGED tsVars

NextTok ==
    \/ ParseSarCpuLine
    \/ ParseSarRamLine
    \/ ParseSarDiskLine
    \/ ParseTimelogLine
    \/ ParseReturn

SpecTok == InitTok /\ [][NextTok]_vars

(* ------------------------ properties of the tokenizers ---------------- *)

Finished == outcome.status \in {"returned", "raised"}

Returned == outcome.status = "returned"

\* whether the tokenizer knd has lines it skips by index
HasHeader(knd) == knd \in {"cpu", "ram", "disk"}

\* the lines after the leading header lines
Rest == IF HasHeader(kind) THEN SubSeq(file, 4, Len(file)) ELSE file

\* a line re-embedding the column-header text of the report
ReHeader(knd, line) ==
    \/ knd = "cpu" /\ line = CpuHeader
    \/ knd = "ram" /\ line = RamHeader
    \/ knd = "disk" /\ line = DiskHeader

\* a line of the kinds a tokenizer is to pass over wherever it stands
Skippable(knd, line) ==
    Len(line) = 0 \/ StartsWithAverage(line) \/ ReHeader(knd, line)

\* a field count other than the expected one
BadCount(knd, line) ==
    \/ knd = "cpu" /\ Len(line) # 9
    \/ knd = "ram" /\ Len(line) < 11
    \/ knd = "disk" /\ Len(line) # 11

\* the field counts the code checks: in a disk report, only those of rows that
\* reach the device test and pass it, and of rows too short to have a device
CheckedBadCount(knd, line, dev) ==
    \/ knd = "cpu" /\ ~ReHeader(knd, line) /\ Len(line) # 9
    \/ knd = "ram" /\ ~ReHeader(knd, line) /\ Len(line) < 11
    \/ knd = "disk" /\ (Len(line) < 3 \/ (line[3] = dev /\ Len(line) # 11))

\* C5 as stated: in the CPU, memory and disk tokenizers a line that is not
\* blank, not among the first 3, not an Average footer and not a re-embedded
\* header, and whose field count is not the expected one, aborts the parse
\* with no records; for the disk tokenizer also when its device field is not
\* the requested device.
C5_AnyBadCountAborts ==
    (HasHeader(kind) /\ Finished
       /\ \E k \in 1..Len(Rest) :
              ~Skippable(kind, Rest[k]) /\ BadCount(kind, Rest[k]))
    => (outcome.status = "raised" /\ outcome.value = <<>>)

\* C5 amended: the same, except that the disk tokenizer checks the field
\* count only of rows whose device field is the requested device (and fails
\* on rows of fewer than 3 fields); a row of another device is dropped
\* whatever its field count.
C5_CheckedBadCountAborts ==
    (HasHeader(kind) /\ Finished
       /\ \E k \in 1..Len(Rest) :
              /\ Len(Rest[k]) # 0
              /\ ~StartsWithAverage(Rest[k])
              /\ CheckedBadCount(kind, Rest[k], device))
    => (outcome.status = "raised" /\ outcome.value = <<>>)

\* C5's case: a disk report whose second row of the requested device is one
\* field short, after a first row that gave a record
C5_Witness ==
    /\ kind = "disk"
    /\ device = "sda"
    /\ n = 4
    /\ Len(file) >= 5
    /\ file[4] = DiskRow("06:21:38", "sda")
    /\ file[5] = DiskShort("sda")
    /\ outcome.status = "raised"
    /\ outcome.error = "AssertionError"
    /\ outcome.value = <<>>

\* the file without the skippable lines that follow its header lines
Kept(knd, f) ==
    IF HasHeader(knd)
    THEN SubSeq(f, 1, 3) \o SelectSeq(SubSeq(f, 4, Len(f)), LAMBDA l : ~Skippable(knd, l))
    ELSE SelectSeq(f, LAMBDA l : ~Skippable(knd, l))

\* the whole call of tokenizer knd on the lines f, from line index k with the
\* records acc so far
RECURSIVE RunFrom(_, _, _, _, _)
RunFrom(knd, f, dev, k, acc) ==
    IF k >= Len(f) THEN [status |-> "returned", value |-> acc, error |-> "none"]
    ELSE LET step == line_step(knd, k, f[k + 1], dev)
         IN  IF step.act = "raise"
             THEN [status |-> "raised", value |-> <<>>, error |-> step.error]
             ELSE RunFrom(knd, f, dev, k + 1,
                          IF step.act = "append" THEN Append(acc, step.rec) ELSE acc)

Run(knd, f, dev) == RunFrom(knd, f, dev, 0, <<>>)

\* C6 as stated: in every tokenizer (CPU, memory, disk, timelog) blank lines,
\* Average lines and re-embedded header lines are skipped without error
\* wherever they stand, and the call gives what it gives on the file without
\* them.
C6_SkippedEverywhere ==
    Finished => outcome = Run(kind, Kept(kind, file), device)

\* C6 amended: this holds of the CPU and memory tokenizers, and of the disk
\* tokenizer when the requested device is not the header's DEV word (it has no
\* header test: the header line goes as a row of another device).  The
\* timelog tokenizer skips nothing.
C6_SkippedBySarTokenizers ==
    (Finished /\ (kind \in {"cpu", "ram"} \/ (kind = "disk" /\ device # "DEV")))
    => outcome = Run(kind, Kept(kind, file), device)

\* C6's case: a CPU report with a header line, a row and an Average line
\* after its first three lines
C6_Witness ==
    /\ kind = "cpu"
    /\ Returned
    /\ Len(file) = 6
    /\ file[4] = CpuHeader
    /\ file[5] = CpuRowB
    /\ file[6] = CpuAverage
    /\ outcome.value = <<CpuRecord(CpuRowB)>>

\* the rows of a disk report: the lines after the header that are neither
\* blank nor Average lines
DataRows ==
    SelectSeq(Rest, LAMBDA l : Len(l) # 0 /\ ~StartsWithAverage(l))

\* the rows of the requested device
DeviceRows == SelectSeq(DataRows, LAMBDA l : Len(l) >= 3 /\ l[3] = device)

WellFormedDiskRow(l) == Len(l) = 11 /\ AllFloat(SubSeq(l, 4, 11))

\* C7: the result of parse_sar_disk holds only records whose dev is the
\* requested device, one for each row of that device in file order, and no
\* more records than the file has rows; rows of other devices are dropped
\* without error.
C7_DeviceFilter ==
    /\ (kind = "disk" /\ Returned) =>
           /\ \A k \in 1..Len(outcome.value) : outcome.value[k].dev = device
           /\ Len(outcome.value) = Len(DeviceRows)
           /\ \A k \in 1..Len(DeviceRows) :
                  /\ WellFormedDiskRow(DeviceRows[k])
                  /\ outcome.value[k] = DeviceStats(DeviceRows[k])
           /\ Len(outcome.value) <= Len(DataRows)
    /\ (kind = "disk" /\ Finished
          /\ \A k \in 1..Len(DataRows) :
                 /\ Len(DataRows[k]) >= 3
                 /\ DataRows[k][3] = device => WellFormedDiskRow(DataRows[k]))
       => Returned

\* C7's case: two sda rows with an sdb row between them, sda requested
C7_Witness ==
    /\ kind = "disk"
    /\ device = "sda"
    /\ Returned
    /\ Len(file) = 6
    /\ file[4] = DiskRow("06:21:48", "sda")
    /\ file[5] = DiskRow("06:21:38", "sdb")
    /\ file[6] = DiskRow("06:21:38", "sda")
    /\ Len(outcome.value) = 2
    /\ outcome.value[1].time = <<"06:21:48", " ", "PM">>

\* the rows of a memory report that are parsed
RamRows == SelectSeq(Rest, LAMBDA l : ~Skippable("ram", l))

Numbers(r) ==
    <<r.kbmemfree, r.kbmemused, r.pmemused, r.kbbuffers, r.kbcached,
      r.kbcommit, r.pcommit, r.kbactive, r.kbinact>>

\* C8 as stated: of a memory row of exactly 11 fields, the token of 0-based
\* index 10 is not among the 9 numbers of the record.
C8_Index10Excluded ==
    (kind = "ram" /\ Returned) =>
        \A k \in 1..Len(outcome.value) :
            Len(RamRows[k]) = 11 =>
                \A j \in 1..9 : Numbers(outcome.value[k])[j] # float(RamRows[k][11])

\* C8 amended: the 9 numbers of the record are the tokens of 0-based index 2
\* to 10, so the token of index 10 is kept, as kbinact; the tokens from
\* index 11 on (kbdirty in a 12-field row) are the ones left out.
C8_Index10Kept ==
    (kind = "ram" /\ Returned) =>
        /\ Len(outcome.value) = Len(RamRows)
        /\ \A k \in 1..Len(outcome.value) :
               /\ Len(RamRows[k]) >= 11
               /\ \A j \in 1..9 :
                      Numbers(outcome.value[k])[j] = float(RamRows[k][j + 2])
               /\ outcome.value[k].kbinact = float(RamRows[k][11])
               /\ \A q \in 12..Len(RamRows[k]) :
                      \A j \in 1..9 :
                          Numbers(outcome.value[k])[j] # float(RamRows[k][q])

\* C8's case: an 11-field row and a 12-field row parsed
C8_Witness ==
    /\ kind = "ram"
    /\ Returned
    /\ Len(outcome.value) = 2
    /\ RamRows = <<RamRow11, RamRow12>>
    /\ outcome.value[1].kbinact = 9
    /\ outcome.value[2].kbinact = 9
=============================================================================
